---------------------------- MODULE Spec2Model ----------------------------
(***************************************************************************)
(* The jukebox page of Wurlitzer-2.0: the slot maps built from the album   *)
(* list, the slide state of the gallery, the jump-to-slot control and the  *)
(* song-title search (src/SONG_SEARCH.md).                                 *)
(*                                                                         *)
(* JavaScript values are records [t, n, s]: t is the type tag, n the value *)
(* of a number, s the characters of a string.  Strings are sequences of    *)
(* one-character strings, so that parsing and formatting are computed.     *)
(* Numbers are integers or NaN: the album data and the catalog hold no     *)
(* fractions.                                                              *)
(***************************************************************************)
EXTENDS Integers, Sequences, FiniteSets, TLC

\* ------------------------------------------------------------------ bounds
\* The callbacks that clear the red border of the slot input, pending at once.
MaxTimers == 1
\* The entries of a catalog of the search specification.
MaxCatalog == 3
\* The length of the queries and titles of the scoring specification.
MaxLen == 3
\* The length of the strings of the normalisation specification.
MaxNormLen == 4
\* The album lists are PadAlbums two-disc albums (or none) followed by at most
\* MaxTail albums with arbitrary discs fields.
PadAlbums == 49
MaxTail == 2
\* The fingers that touch the gallery at once.
MaxFingers == 2

\* ------------------------------------------------------- program constants
MAX_SLOTS == 100

\* ------------------------------------------------------------- JavaScript
Undefined == [t |-> "undefined", n |-> 0, s |-> <<>>]
Null == [t |-> "null", n |-> 0, s |-> <<>>]
NaN == [t |-> "nan", n |-> 0, s |-> <<>>]
Num(k) == [t |-> "number", n |-> k, s |-> <<>>]
Str(cs) == [t |-> "string", n |-> 0, s |-> cs]

IsNaN(v) == v.t = "nan"
IsNum(v) == v.t = "number"

DigitChars == <<"0", "1", "2", "3", "4", "5", "6", "7", "8", "9">>
IsDigit(c) == \E d \in 1..10 : DigitChars[d] = c
DigitValue(c) == (CHOOSE d \in 1..10 : DigitChars[d] = c) - 1
\* The characters JavaScript's \s and StrWhiteSpace match, among those modelled.
IsSpace(c) == c \in {" ", "\t"}

\* ToBoolean.
Truthy(v) ==
    CASE v.t = "undefined" -> FALSE
      [] v.t = "null" -> FALSE
      [] v.t = "nan" -> FALSE
      [] v.t = "number" -> v.n # 0
      [] v.t = "string" -> v.s # <<>>

\* a || b
Or(a, b) == IF Truthy(a) THEN a ELSE b
\* a ?? b
Coalesce(a, b) == IF a.t \in {"undefined", "null"} THEN b ELSE a

RECURSIVE TrimStart(_)
TrimStart(cs) ==
    IF cs # <<>> /\ IsSpace(Head(cs)) THEN TrimStart(Tail(cs)) ELSE cs
RECURSIVE TrimEnd(_)
TrimEnd(cs) ==
    IF cs # <<>> /\ IsSpace(cs[Len(cs)]) THEN TrimEnd(SubSeq(cs, 1, Len(cs) - 1)) ELSE cs
\* String.prototype.trim
Trim(cs) == TrimEnd(TrimStart(cs))

\* The value of a run of decimal digits.
RECURSIVE DigitsValue(_, _)
DigitsValue(cs, acc) ==
    IF cs = <<>> THEN acc ELSE DigitsValue(Tail(cs), 10 * acc + DigitValue(Head(cs)))

\* The longest prefix of cs made of digits.
RECURSIVE DigitPrefix(_)
DigitPrefix(cs) ==
    IF cs # <<>> /\ IsDigit(Head(cs)) THEN <<Head(cs)>> \o DigitPrefix(Tail(cs)) ELSE <<>>

\* Number(string), for the strings modelled: white space is trimmed, the empty
\* string is 0, an optionally signed run of digits is its value, the rest NaN.
StringToNumber(cs) ==
    LET body == Trim(cs)
        signed == body # <<>> /\ Head(body) \in {"+", "-"}
        digits == IF signed THEN Tail(body) ELSE body
    IN  IF body = <<>> THEN Num(0)
        ELSE IF digits # <<>> /\ DigitPrefix(digits) = digits
             THEN Num((IF signed /\ Head(body) = "-" THEN -1 ELSE 1) * DigitsValue(digits, 0))
             ELSE NaN

\* Number(v)
ToNumber(v) ==
    CASE v.t = "undefined" -> NaN
      [] v.t = "null" -> Num(0)
      [] v.t = "nan" -> NaN
      [] v.t = "number" -> v
      [] v.t = "string" -> StringToNumber(v.s)

\* parseInt(string, 10): leading white space skipped, an optional sign, then
\* the longest run of digits; NaN when there is none.
ParseInt(cs) ==
    LET body == TrimStart(cs)
        signed == body # <<>> /\ Head(body) \in {"+", "-"}
        rest == IF signed THEN Tail(body) ELSE body
        digits == DigitPrefix(rest)
    IN  IF digits = <<>> THEN NaN
        ELSE Num((IF signed /\ Head(body) = "-" THEN -1 ELSE 1) * DigitsValue(digits, 0))

\* Math.max, Math.min: NaN when either argument is NaN.
MathMax(a, b) == IF IsNaN(a) \/ IsNaN(b) THEN NaN ELSE IF a.n >= b.n THEN a ELSE b
MathMin(a, b) == IF IsNaN(a) \/ IsNaN(b) THEN NaN ELSE IF a.n <= b.n THEN a ELSE b
\* a + b on numbers.
Plus(a, b) == IF IsNaN(a) \/ IsNaN(b) THEN NaN ELSE Num(a.n + b.n)
\* a < b, a <= b, a >= b on numbers: false when either side is NaN.
Less(a, b) == ~IsNaN(a) /\ ~IsNaN(b) /\ a.n < b.n
LessEq(a, b) == ~IsNaN(a) /\ ~IsNaN(b) /\ a.n <= b.n
GreaterEq(a, b) == ~IsNaN(a) /\ ~IsNaN(b) /\ a.n >= b.n
\* a === b on numbers: NaN equals nothing.
StrictEq(a, b) == a.t = b.t /\ ~IsNaN(a) /\ a.n = b.n /\ a.s = b.s

\* The decimal digits of a natural number.
RECURSIVE NatDigits(_)
NatDigits(k) ==
    IF k < 10 THEN <<DigitChars[k + 1]>> ELSE NatDigits(k \div 10) \o <<DigitChars[(k % 10) + 1]>>
\* `${v}` of a number.
NumToString(v) ==
    IF IsNaN(v) THEN <<"N", "a", "N">>
    ELSE IF v.n < 0 THEN <<"-">> \o NatDigits(-v.n) ELSE NatDigits(v.n)

\* ------------------------------------------------------------ the slot maps
\* Math.min(2, Math.max(1, Number(album?.discs || 1)))
ClampDiscs(album) == MathMin(Num(2), MathMax(Num(1), ToNumber(Or(album.discs, Num(1)))))

\* Mutants of the inner loop: the cursor incremented before the write
\* (slotToAlbum[++slot]), and the bound tested with < instead of <=.
RECURSIVE InnerLoopPreIncrement(_, _, _, _)
InnerLoopPreIncrement(j, discs, i, m) ==
    IF Less(Num(j), discs) /\ m.slot <= MAX_SLOTS
    THEN InnerLoopPreIncrement(j + 1, discs, i,
             [m EXCEPT !.slotToAlbum =
                           [s \in 0..MAX_SLOTS |->
                               IF s = m.slot + 1 THEN i ELSE m.slotToAlbum[s]],
                       !.slot = m.slot + 1])
    ELSE m
RECURSIVE InnerLoopStrictBound(_, _, _, _)
InnerLoopStrictBound(j, discs, i, m) ==
    IF Less(Num(j), discs) /\ m.slot < MAX_SLOTS
    THEN InnerLoopStrictBound(j + 1, discs, i,
             [m EXCEPT !.slotToAlbum[m.slot] = i, !.slot = m.slot + 1])
    ELSE m

\* for (let j=0; j<discs && slot<=MAX_SLOTS; j++) slotToAlbum[slot++] = i;
\* m is [slot, slotToAlbum, albumStartSlot]; album indices are zero-based.
RECURSIVE InnerLoop(_, _, _, _)
InnerLoop(j, discs, i, m) ==
    IF Less(Num(j), discs) /\ m.slot <= MAX_SLOTS
    THEN InnerLoop(j + 1, discs, i,
                   [m EXCEPT !.slotToAlbum[m.slot] = i, !.slot = m.slot + 1])
    ELSE m

\* for (let i=0; i<albums.length; i++) { ... }
\* The cursor is at least 1 throughout; reading it here makes TLC evaluate the
\* state of one iteration before it starts the next.
RECURSIVE OuterLoop(_, _, _)
OuterLoop(i, list, m) ==
    IF i < Len(list) /\ m.slot >= 1
    THEN OuterLoop(i + 1, list,
                   InnerLoop(0, ClampDiscs(list[i + 1]), i,
                             [m EXCEPT !.albumStartSlot[i + 1] = m.slot]))
    ELSE m

\* new Array(MAX_SLOTS+1).fill(-1), new Array(albums.length).fill(0), slot = 1,
\* then the loop.  albumStartSlot[i + 1] holds the start slot of album i.
BuildMaps(list) ==
    OuterLoop(0, list,
              [slot |-> 1,
               slotToAlbum |-> [s \in 0..MAX_SLOTS |-> -1],
               albumStartSlot |-> [i \in 1..Len(list) |-> 0]])

\* ------------------------------------------------------------------ state
VARIABLES
    albums,          \* window.albums: the album records, in order
    slotToAlbum,     \* slot (0..MAX_SLOTS) -> album index, -1 when unassigned
    albumStartSlot,  \* album index + 1 -> its start slot
    slideAlt,        \* album index + 1 -> the range label built into its slide
    activeIndex,     \* swiper.activeIndex
    flipped,         \* whether the active slide shows its back
    platzText,       \* platzEl.textContent
    jumpValue,       \* jump.value, the text of the slot input
    jumpBorder,      \* jump.style.borderColor
    borderTimers,    \* the setTimeout callbacks that clear the border, pending
    SONGS,           \* the catalog: entries [n, albumIndex, disc]
    songsJson,       \* what fetch('songs.json') will deliver: [array, items]
    fetchState,      \* "pending", "loaded" or "failed"
    songValue,       \* the text of the song input
    songPlatz,       \* the text of the result span
    scan,            \* the locals of the last findBestSong: [ran, scores, best, bestScore]
    zoom,            \* --zoom of the active slide's .flip-inner, in hundredths
    tx,              \* --tx of the active slide's .flip-inner, in px
    ty,              \* --ty of the active slide's .flip-inner, in px
    currentScale,    \* currentScale, in hundredths
    allowTouchMove,  \* swiper.allowTouchMove
    touches,         \* the fingers on the gallery: e.touches.length
    pinchStartDistance, \* pinchStartDistance in px, 0 for null (tested for truth only)
    pinchStartScale, \* pinchStartScale, in hundredths
    isPanning,       \* isPanning
    panStart,        \* panStart: [x, y]
    panOffset,       \* panOffset: [x, y]
    lastTapTime,     \* lastTapTime: 0, or 1 once a tap has set it to Date.now()
    swState,         \* the service worker: "parsed", "installed", "activated", "redundant"
    cacheKeys,       \* caches.keys(): the names of the caches that exist
    cache,           \* the cache named CACHE: URL -> "absent", or the status of the response stored
    online,          \* whether the network answers
    request,         \* the request of the last fetch event
    response,        \* what the last fetch event was answered with
    last             \* the handler that ran last

vars == <<albums, slotToAlbum, albumStartSlot, slideAlt, activeIndex, flipped,
          platzText, jumpValue, jumpBorder, borderTimers, SONGS, songsJson,
          fetchState, songValue, songPlatz, scan, zoom, tx, ty, currentScale,
          allowTouchMove, touches, pinchStartDistance, pinchStartScale, isPanning,
          panStart, panOffset, lastTapTime, swState, cacheKeys, cache, online, request,
          response, last>>

mapVars == <<albums, slotToAlbum, albumStartSlot, slideAlt>>
galleryVars == <<activeIndex, flipped, platzText, jumpValue, jumpBorder, borderTimers>>
searchVars == <<SONGS, songsJson, fetchState, songValue, songPlatz, scan>>
styleVars == <<zoom, tx, ty>>
gestureVars == <<currentScale, allowTouchMove, touches, pinchStartDistance, pinchStartScale,
                 isPanning, panStart, panOffset, lastTapTime>>
zoomVars == <<styleVars, gestureVars>>
swVars == <<swState, cacheKeys, cache, online, request, response>>
pageVars == <<mapVars, galleryVars, searchVars, zoomVars>>

\* The en-dash character, U+2013.
EnDash == "u2013"

\* const start = albumStartSlot[i] || 0;  (i is zero-based)
LabelStart(i) == Or(Num(albumStartSlot[i + 1]), Num(0))
\* Mutant of the end of the range: not clamped to MAX_SLOTS.
LabelEndUnclamped(i) == Plus(Plus(LabelStart(i), ClampDiscs(albums[i + 1])), Num(-1))
\* const end = Math.min(MAX_SLOTS, start + discs - 1);
LabelEnd(i) ==
    MathMin(Num(MAX_SLOTS), Plus(Plus(LabelStart(i), ClampDiscs(albums[i + 1])), Num(-1)))
\* return (start===end) ? `${start}` : `${start}–${end}`;
rangeLabel(i) ==
    IF StrictEq(LabelStart(i), LabelEnd(i)) THEN NumToString(LabelStart(i))
    ELSE NumToString(LabelStart(i)) \o <<EnDash>> \o NumToString(LabelEnd(i))

\* `Platz ${rangeLabel(i)}`
PlatzOf(i) == <<"Platz ">> \o rangeLabel(i)

\* ---------------------------------------------------- text normalisation
\* Characters are one-character strings; the ones outside ASCII are named by
\* their code point: a with diaeresis, its capital, the combining diaeresis,
\* the sharp s.
AUml == "u00E4"
AUmlCapital == "u00C4"
CombiningDiaeresis == "u0308"
SharpS == "u00DF"

LowerLetters ==
    <<"a", "b", "c", "d", "e", "f", "g", "h", "i", "j", "k", "l", "m",
      "n", "o", "p", "q", "r", "s", "t", "u", "v", "w", "x", "y", "z">>
UpperLetters ==
    <<"A", "B", "C", "D", "E", "F", "G", "H", "I", "J", "K", "L", "M",
      "N", "O", "P", "Q", "R", "S", "T", "U", "V", "W", "X", "Y", "Z">>

\* .toLowerCase(), one character
LowerChar(c) ==
    IF \E k \in 1..26 : UpperLetters[k] = c
    THEN LowerLetters[CHOOSE k \in 1..26 : UpperLetters[k] = c]
    ELSE IF c = AUmlCapital THEN AUml ELSE c

\* .normalize('NFKD'), one character: a precomposed letter becomes its base
\* letter and the combining mark.
Decompose(c) ==
    IF c = AUml THEN <<"a", CombiningDiaeresis>>
    ELSE IF c = AUmlCapital THEN <<"A", CombiningDiaeresis>>
    ELSE <<c>>

\* \p{Diacritic}, among the characters modelled.
IsDiacritic(c) == c \in {CombiningDiaeresis, "^"}

\* [a-z0-9 ]
IsPlain(c) == c = " " \/ IsDigit(c) \/ \E k \in 1..26 : LowerLetters[k] = c

RECURSIVE LowerAndDecompose(_)
LowerAndDecompose(cs) ==
    IF cs = <<>> THEN <<>> ELSE Decompose(LowerChar(Head(cs))) \o LowerAndDecompose(Tail(cs))

\* .replace(/\p{Diacritic}/gu, '')
RECURSIVE StripDiacritics(_)
StripDiacritics(cs) ==
    IF cs = <<>> THEN <<>>
    ELSE IF IsDiacritic(Head(cs)) THEN StripDiacritics(Tail(cs))
    ELSE <<Head(cs)>> \o StripDiacritics(Tail(cs))

\* .replace(/[^a-z0-9 ]/g, ' ')
ReplaceOthers(cs) == [k \in 1..Len(cs) |-> IF IsPlain(cs[k]) THEN cs[k] ELSE " "]

\* .replace(/\s+/g, ' ')
RECURSIVE CollapseSpaces(_)
CollapseSpaces(cs) ==
    IF cs = <<>> THEN <<>>
    ELSE IF IsSpace(Head(cs))
         THEN <<" ">> \o CollapseSpaces(TrimStart(cs))
         ELSE <<Head(cs)>> \o CollapseSpaces(Tail(cs))

\* Mutant of norm: white space collapsed before the punctuation is replaced.
normCollapseFirst(cs) ==
    Trim(ReplaceOthers(CollapseSpaces(StripDiacritics(LowerAndDecompose(cs)))))

\* norm(s), s a string
norm(cs) ==
    Trim(CollapseSpaces(ReplaceOthers(StripDiacritics(LowerAndDecompose(cs)))))

\* ------------------------------------------------------------ the scoring
\* Scores are fractions n/d, d > 0, compared and added exactly.
Frac(n, d) == [n |-> n, d |-> d]
FracAdd(x, y) == Frac(x.n * y.d + y.n * x.d, x.d * y.d)
FracGreater(x, y) == x.n * y.d > y.n * x.d
FracEq(x, y) == x.n * y.d = y.n * x.d

\* hay.includes(needle), hay.startsWith(needle)
Includes(hay, needle) ==
    \E k \in 0..(Len(hay) - Len(needle)) : SubSeq(hay, k + 1, k + Len(needle)) = needle
StartsWith(hay, needle) ==
    Len(needle) <= Len(hay) /\ SubSeq(hay, 1, Len(needle)) = needle

\* new Set(s.split(' '))
RECURSIVE SplitOnSpace(_, _)
SplitOnSpace(cs, token) ==
    IF cs = <<>> THEN {token}
    ELSE IF Head(cs) = " " THEN {token} \cup SplitOnSpace(Tail(cs), <<>>)
    ELSE SplitOnSpace(Tail(cs), Append(token, Head(cs)))
TokenSet(cs) == SplitOnSpace(cs, <<>>)

\* The score of two different non-empty normalised strings: substring match,
\* token Jaccard overlap and prefix bonus.
PartialScore(q, c) ==
    LET tq == TokenSet(q)
        tc == TokenSet(c)
        inter == Cardinality(tq \cap tc)
        size == Cardinality(tq \cup tc)
        union == IF size = 0 THEN 1 ELSE size
    IN  FracAdd(FracAdd(IF Includes(c, q) \/ Includes(q, c) THEN Frac(1, 1) ELSE Frac(0, 1),
                        Frac(inter, union)),
                IF StartsWith(c, q) THEN Frac(1, 4) ELSE Frac(0, 1))

\* Mutant of fuzzyScore: an exact match scored like a partial one (the
\* q === c line dropped).
fuzzyScoreNoExact(query, candidate) ==
    LET q == norm(query)
        c == norm(candidate)
    IN  IF q = <<>> \/ c = <<>> THEN Frac(0, 1) ELSE PartialScore(q, c)

\* fuzzyScore(query, candidate)
fuzzyScore(query, candidate) ==
    LET q == norm(query)
        c == norm(candidate)
    IN  IF q = <<>> \/ c = <<>> THEN Frac(0, 1)
        ELSE IF q = c THEN Frac(3, 1)
        ELSE PartialScore(q, c)

\* return bestScore > 0.15 ? best : null
Threshold == Frac(3, 20)

\* Mutant of the scan: a later equal score replaces the best (>=).
RECURSIVE ScanLaterWins(_, _, _)
ScanLaterWins(k, scores, st) ==
    IF k > Len(scores) THEN st
    ELSE ScanLaterWins(k + 1, scores,
             IF ~FracGreater(st.bestScore, scores[k])
             THEN [best |-> k, bestScore |-> scores[k]]
             ELSE st)

\* for (const s of SONGS){ ...; if (sc > bestScore){ bestScore = sc; best = s; } }
\* over the scores of the entries, from entry k on; best is the position of
\* the entry held in `best`, 0 for null.
RECURSIVE Scan(_, _, _)
Scan(k, scores, st) ==
    IF k > Len(scores) THEN st
    ELSE Scan(k + 1, scores,
              IF FracGreater(scores[k], st.bestScore)
              THEN [best |-> k, bestScore |-> scores[k]]
              ELSE st)

\* return bestScore > 0.15 ? best : null
CutOff(st) == IF FracGreater(st.bestScore, Threshold) THEN st.best ELSE 0

\* findBestSong(query): the scores computed, the locals at the end of the
\* loop, and the entry returned (its position, 0 for null).
findBestSong(query) ==
    LET scores == [k \in 1..Len(SONGS) |-> fuzzyScore(query, SONGS[k].n)]
        st == Scan(1, scores, [best |-> 0, bestScore |-> Frac(0, 1)])
    IN  [ran |-> TRUE, scores |-> scores, best |-> st.best, bestScore |-> st.bestScore,
         hit |-> CutOff(st)]

NoScan == [ran |-> FALSE, scores |-> <<>>, best |-> 0, bestScore |-> Frac(0, 1), hit |-> 0]

\* ------------------------------------------------------------ the loader
\* String(v)
ToStr(v) ==
    CASE v.t = "string" -> v.s
      [] v.t = "number" -> NumToString(v)
      [] v.t = "nan" -> NumToString(v)
      [] v.t = "undefined" -> <<"u", "n", "d", "e", "f", "i", "n", "e", "d">>
      [] v.t = "null" -> <<"n", "u", "l", "l">>

\* x => ({ n: String(x?.n ?? x?.title ?? '').trim(),
\*         albumIndex: Number(x?.albumIndex ?? -1),
\*         disc: (x?.disc == null ? null : Number(x.disc)) })
LoadEntry(x) ==
    [n |-> Trim(ToStr(Coalesce(Coalesce(x.n, x.title), Str(<<>>)))),
     albumIndex |-> ToNumber(Coalesce(x.albumIndex, Num(-1))),
     disc |-> IF x.disc.t \in {"undefined", "null"} THEN Null ELSE ToNumber(x.disc)]

\* SONGS = Array.isArray(d) ? d.map(...) : [];
LoadSongs(json) ==
    IF json.array THEN [k \in 1..Len(json.items) |-> LoadEntry(json.items[k])] ELSE <<>>

\* ------------------------------------------------- from a song to its Platz
\* computePlatzForSong(song); albums[i] is undefined past the end of the list.
computePlatzForSong(song) ==
    LET i == ToNumber(Coalesce(song.albumIndex, Num(-1)))
    IN  IF ~GreaterEq(i, Num(0)) \/ i.n + 1 \notin 1..Len(albums)
        THEN [slot |-> Null, approx |-> FALSE]
        ELSE LET start == Or(Num(albumStartSlot[i.n + 1]), Num(0))
                 discsCount == ClampDiscs(albums[i.n + 1])
                 d == song.disc
             IN  IF StrictEq(d, Num(1)) THEN [slot |-> start, approx |-> FALSE]
                 ELSE IF StrictEq(d, Num(2))
                      THEN IF GreaterEq(discsCount, Num(2))
                           THEN [slot |-> MathMin(Plus(start, Num(1)), Num(MAX_SLOTS)),
                                 approx |-> FALSE]
                           ELSE [slot |-> start, approx |-> TRUE]
                 ELSE IF StrictEq(discsCount, Num(1))
                      THEN [slot |-> start, approx |-> FALSE]
                      ELSE [slot |-> start, approx |-> TRUE]

\* The approximation mark of the result text, U+2248 and "Platz ".
ApproxPlatz == "u2248 Platz "

\* Mutant of the result text: the missing slot not tested (if (!res.slot) dropped).
PlatzTextForNoSlotCheck(song) ==
    LET res == computePlatzForSong(song)
    IN  <<IF res.approx THEN ApproxPlatz ELSE "Platz ">> \o ToStr(res.slot)

\* const res = computePlatzForSong(s);
\* if (!res.slot){ out.textContent = 'Unbekannt'; return; }
\* out.textContent = (res.approx ? '\u2248 Platz ' : 'Platz ') + res.slot;
PlatzTextFor(song) ==
    LET res == computePlatzForSong(song)
    IN  IF ~Truthy(res.slot) THEN <<"Unbekannt">>
        ELSE <<IF res.approx THEN ApproxPlatz ELSE "Platz ">> \o ToStr(res.slot)

\* Mutant of showSongPlatz: the empty query not returned early.
showSongPlatzNoEmptyCheck(q) ==
    LET r == findBestSong(q)
    IN  [scan |-> r,
         text |-> IF r.hit = 0 THEN <<"Kein Treffer">> ELSE PlatzTextFor(SONGS[r.hit])]

\* showSongPlatz() with the input holding q: the text written to the result
\* span and the scan made, if any.
showSongPlatz(q) ==
    IF q = <<>> THEN [scan |-> NoScan, text |-> <<>>]
    ELSE LET r == findBestSong(q)
         IN  [scan |-> r,
              text |-> IF r.hit = 0 THEN <<"Kein Treffer">> ELSE PlatzTextFor(SONGS[r.hit])]

\* ------------------------------------------------------ the service worker
\* const CACHE = 'jukebox-swiper-cache-v11'; OldCache is the cache of an
\* earlier version.
CACHE == "jukebox-swiper-cache-v11"
OldCache == "jukebox-swiper-cache-v10"
\* The URLs, resolved against the location of the worker ("./" is its scope).
Unpkg == "https://unpkg.com"
SwiperCss == "https://unpkg.com/swiper@11/swiper-bundle.min.css"
SwiperJs == "https://unpkg.com/swiper@11/swiper-bundle.min.js"
CORE ==
    {"./", "./index.html", "./app.js", "./data.js", "./manifest.json",
     "./icons/icon-192.png", "./icons/icon-512.png", SwiperCss, SwiperJs}
\* A page, a cover, a script with a query and a script that are not in CORE,
\* and URLs of a foreign origin and of an extension.
OtherUrls ==
    {"./other.html", "./bilder/1-front.WEBP", "./app.js?v=2", "https://example.com/x.js",
     "chrome-extension://x/y.js"}
Urls == CORE \cup OtherUrls

\* new URL(req.url): protocol, origin and the extension the path ends in.
UrlProtocol(u) == IF u = "chrome-extension://x/y.js" THEN "chrome-extension:" ELSE "https:"
UrlOrigin(u) ==
    IF u \in {SwiperCss, SwiperJs} THEN Unpkg
    ELSE IF u = "https://example.com/x.js" THEN "https://example.com"
    ELSE IF u = "chrome-extension://x/y.js" THEN "chrome-extension://x"
    ELSE "self"
UrlExtension(u) ==
    IF u \in {"./icons/icon-192.png", "./icons/icon-512.png"} THEN "png"
    ELSE IF u = "./bilder/1-front.WEBP" THEN "WEBP"
    ELSE IF u \in {"./index.html", "./other.html"} THEN "html"
    ELSE IF u \in {"./app.js", "./app.js?v=2", "./data.js", SwiperJs} THEN "js"
    ELSE IF u = SwiperCss THEN "css"
    ELSE IF u = "./manifest.json" THEN "json"
    ELSE ""
\* /\.(png|jpe?g|webp|gif|avif)$/i.test(url.pathname)
IsImagePath(u) ==
    LET e == UrlExtension(u)
        lower == IF e = "WEBP" THEN "webp" ELSE e
    IN  lower \in {"png", "jpg", "jpeg", "webp", "gif", "avif"}

NoRequest == [url |-> "", mode |-> ""]
NoResponse == [handled |-> FALSE, from |-> "", key |-> "", status |-> ""]
\* --------------------------------------------------------------- the inputs
\* The discs fields an album record may hold: missing, null, 0, below 1, 1, 2,
\* above 2, a numeric string, a non-numeric string.
DiscsValues ==
    {Undefined, Null, Num(0), Num(-1), Num(1), Num(2), Num(3), Str(<<"2">>), Str(<<"x">>)}
Album(d) == [discs |-> d]

RECURSIVE SeqsUpTo(_, _)
SeqsUpTo(S, k) ==
    IF k = 0 THEN {<<>>}
    ELSE LET shorter == SeqsUpTo(S, k - 1)
         IN  shorter \cup {Append(q, x) : q \in {r \in shorter : Len(r) = k - 1}, x \in S}

Pad(k) == [i \in 1..k |-> Album(Num(2))]
Tails == SeqsUpTo({Album(d) : d \in DiscsValues}, MaxTail)
\* albums = [{discs:1},{discs:2},{discs:1}]
Scenario1 == <<Album(Num(1)), Album(Num(2)), Album(Num(1))>>
AlbumLists == {Pad(k) \o tl : k \in {0, PadAlbums}, tl \in Tails} \cup {Scenario1}

\* songs.json holding no entry.
EmptyJson == [array |-> TRUE, items |-> <<>>]

\* The state once the script has run on the album list `list`.  An empty list
\* returns early: no maps, no slides, no handlers.
InitOn(lists, payloads, queries) ==
    /\ albums \in lists
    /\ slotToAlbum = IF albums = <<>> THEN [s \in 0..MAX_SLOTS |-> -1]
                     ELSE BuildMaps(albums).slotToAlbum
    /\ albumStartSlot = IF albums = <<>> THEN <<>> ELSE BuildMaps(albums).albumStartSlot
    /\ slideAlt = [i \in 1..Len(albums) |-> rangeLabel(i - 1)]
    /\ activeIndex = 0
    /\ flipped = FALSE
    /\ platzText = IF albums = <<>> THEN <<"Keine Alben konfiguriert">> ELSE PlatzOf(0)
    /\ jumpValue = <<>>
    /\ jumpBorder = ""
    /\ borderTimers = 0
    /\ SONGS = <<>>
    /\ songsJson \in payloads
    /\ fetchState = IF albums = <<>> THEN "none" ELSE "pending"
    /\ songValue \in queries
    /\ songPlatz = <<>>
    /\ scan = NoScan
    /\ zoom = 100
    /\ tx = 0
    /\ ty = 0
    /\ currentScale = 100
    /\ allowTouchMove = TRUE
    /\ touches = 0
    /\ pinchStartDistance = 0
    /\ pinchStartScale = 100
    /\ isPanning = FALSE
    /\ panStart = [x |-> 0, y |-> 0]
    /\ panOffset = [x |-> 0, y |-> 0]
    /\ lastTapTime = 0
    /\ swState = "parsed"
    /\ cacheKeys = {OldCache}
    /\ cache = [u \in Urls |-> "absent"]
    /\ online = TRUE
    /\ request = NoRequest
    /\ response = NoResponse
    /\ last = "init"

Configured == albums # <<>>

\* ------------------------------------------------------------- the gallery
\* resetZoom(slideEl)
resetZoom ==
    /\ zoom' = 100
    /\ tx' = 0
    /\ ty' = 0

\* swiper.on('slideChange'): resetFlip(activeSlideEl()); resetZoom(activeSlideEl());
\* updatePlatz(); run when the active index becomes `to`.
SlideChange(to) ==
    /\ activeIndex' = to
    /\ flipped' = FALSE
    /\ resetZoom
    /\ platzText' = PlatzOf(to)

\* Swiper's own navigation: the next/prev buttons, the arrow keys, a swipe.
SlideNext ==
    /\ Configured
    /\ activeIndex < Len(albums) - 1
    /\ SlideChange(activeIndex + 1)
    /\ last' = "slide"
    /\ UNCHANGED <<swVars, mapVars, searchVars, gestureVars, jumpValue, jumpBorder, borderTimers>>

SlidePrev ==
    /\ Configured
    /\ activeIndex > 0
    /\ SlideChange(activeIndex - 1)
    /\ last' = "slide"
    /\ UNCHANGED <<swVars, mapVars, searchVars, gestureVars, jumpValue, jumpBorder, borderTimers>>

\* Mutant of the Home key: the handler clears the start slot of the first album.
KeyHomeClearsStart ==
    /\ Configured
    /\ activeIndex # 0
    /\ SlideChange(0)
    /\ albumStartSlot' = [albumStartSlot EXCEPT ![1] = 0]
    /\ last' = "slide"
    /\ UNCHANGED <<swVars, albums, slotToAlbum, slideAlt, searchVars, gestureVars, jumpValue,
                   jumpBorder, borderTimers>>

\* keydown 'Home': swiper.slideTo(0, 0); slideChange fires when the index changes.
KeyHome ==
    /\ Configured
    /\ activeIndex # 0
    /\ SlideChange(0)
    /\ last' = "slide"
    /\ UNCHANGED <<swVars, mapVars, searchVars, gestureVars, jumpValue, jumpBorder, borderTimers>>

\* keydown 'End': swiper.slideTo(albums.length-1, 0)
KeyEnd ==
    /\ Configured
    /\ activeIndex # Len(albums) - 1
    /\ SlideChange(Len(albums) - 1)
    /\ last' = "slide"
    /\ UNCHANGED <<swVars, mapVars, searchVars, gestureVars, jumpValue, jumpBorder, borderTimers>>

\* Space or Enter outside an input: toggle the flip of the active slide.
Flip ==
    /\ Configured
    /\ flipped' = ~flipped
    /\ last' = "flip"
    /\ UNCHANGED <<swVars, mapVars, searchVars, zoomVars, activeIndex, platzText, jumpValue, jumpBorder,
                   borderTimers>>

\* ---------------------------------------------------------- jump to slot
\* The texts typed into the slot input.
JumpInputs ==
    {<<>>, <<"0">>, <<"1">>, <<"3">>, <<"1", "0", "0">>, <<"1", "0", "1">>,
     <<"-", "1">>, <<"x">>, <<"2", "x">>, <<" ", "4">>}

\* Mutants of the range check: n >= MAX_SLOTS rejected; no upper check.
ResolveSlotStrict(n) ==
    IF ~IsNum(n) \/ Less(n, Num(1)) \/ GreaterEq(n, Num(MAX_SLOTS)) THEN -1
    ELSE slotToAlbum[n.n]

\* if (!Number.isFinite(n) || n < 1 || n > MAX_SLOTS) { ...red...; return; }
\* const pos = slotToAlbum[n];
\* -1 is the position of a slot that is out of range or unassigned: the two
\* branches that reject it do the same.
ResolveSlot(n) ==
    IF ~IsNum(n) \/ Less(n, Num(1)) \/ Less(Num(MAX_SLOTS), n) THEN -1
    ELSE slotToAlbum[n.n]

\* The user edits the slot input.
TypeJump(v) ==
    /\ Configured
    /\ jumpValue # v
    /\ jumpValue' = v
    /\ last' = "type"
    /\ UNCHANGED <<swVars, mapVars, searchVars, zoomVars, activeIndex, flipped, platzText, jumpBorder,
                   borderTimers>>

\* goBtn click (or Enter in the slot input).
GoClick ==
    /\ Configured
    /\ LET pos == ResolveSlot(ParseInt(jumpValue))
       IN  IF pos >= 0
           THEN \* swiper.slideTo(pos, 0); resetFlip(...); jump.value='';
                \* jump.style.borderColor=''; updatePlatz(); slideChange, and
                \* with it resetZoom, runs when the index changes.
                /\ activeIndex' = pos
                /\ flipped' = FALSE
                /\ IF pos # activeIndex THEN resetZoom ELSE UNCHANGED styleVars
                /\ platzText' = PlatzOf(pos)
                /\ jumpValue' = <<>>
                /\ jumpBorder' = ""
                /\ UNCHANGED borderTimers
           ELSE \* jump.style.borderColor='red'; setTimeout(..., 900);
                /\ borderTimers < MaxTimers
                /\ jumpBorder' = "red"
                /\ borderTimers' = borderTimers + 1
                /\ UNCHANGED <<activeIndex, flipped, platzText, jumpValue, styleVars>>
    /\ last' = "go"
    /\ UNCHANGED <<swVars, mapVars, searchVars, gestureVars>>

\* setTimeout(()=> jump.style.borderColor='', 900) fires.
BorderTimer ==
    /\ borderTimers > 0
    /\ borderTimers' = borderTimers - 1
    /\ jumpBorder' = ""
    /\ last' = "timer"
    /\ UNCHANGED <<swVars, mapVars, searchVars, zoomVars, activeIndex, flipped, platzText, jumpValue>>

\* ------------------------------------------------------- pinch, pan and zoom
\* Scales are held in hundredths: 100 is 1, 250 is 2.5.  The text of --zoom
\* is String(scale) and is read back with Number(), which gives scale again.
MinScale == 100
\* Math.min(2.5, ...)
MaxScale == 250
\* currentScale <= 1.01
RestoreScale == 101
\* const next = cur > 1 ? 1 : 2;
DoubleTapScale == 200
\* sEl.clientWidth and sEl.clientHeight of a slide, in px
SlideWidth == 300
SlideHeight == 200

\* The scales a pinch is taken to: 1, the restore threshold 1.01, 2 and the
\* maximum.
Scales == {MinScale, RestoreScale, DoubleTapScale, MaxScale}
\* getDistance(t1, t2) when two fingers come down: apart, or on one point.
StartDistances == {0, 100}
\* getDistance(t1, t2) as the two fingers move.
MoveDistances == {40, 50, 100, 101, 200, 300}
\* The points a finger touches.
TouchPoints == {[x |-> 0, y |-> 0], [x |-> 200, y |-> 0]}

Clamp(lo, v, hi) == IF v < lo THEN lo ELSE IF v > hi THEN hi ELSE v

\* Math.max(1, Math.min(2.5, pinchStartScale * (dist / pinchStartDistance)))
PinchScale(dist) ==
    Clamp(MinScale, (pinchStartScale * dist) \div pinchStartDistance, MaxScale)

\* (scale - 1) * 0.5 * size, with scale = Math.max(1, Number(--zoom) || 1)
MaxShift(size) ==
    LET scale == IF zoom < MinScale THEN MinScale ELSE zoom
    IN  ((scale - MinScale) * size) \div 200

\* touchstart with n fingers down afterwards; dist is the distance of the
\* first two, t the point of the first.
TouchStart(n, dist, t) ==
    /\ Configured
    /\ n > touches
    /\ n <= MaxFingers
    /\ touches' = n
    /\ IF n = 2
       THEN /\ allowTouchMove' = FALSE
            /\ pinchStartDistance' = dist
            /\ pinchStartScale' = zoom
            /\ isPanning' = FALSE
            /\ UNCHANGED <<panStart, panOffset>>
       ELSE IF n = 1 /\ currentScale > MinScale
       THEN /\ allowTouchMove' = FALSE
            /\ isPanning' = TRUE
            /\ panStart' = t
            /\ panOffset' = [x |-> tx, y |-> ty]
            /\ UNCHANGED <<pinchStartDistance, pinchStartScale>>
       ELSE UNCHANGED <<allowTouchMove, pinchStartDistance, pinchStartScale, isPanning,
                        panStart, panOffset>>
    /\ last' = "touchstart"
    /\ UNCHANGED <<swVars, mapVars, galleryVars, searchVars, styleVars, currentScale, lastTapTime>>

\* touchmove: the two fingers of a pinch are now dist apart, or the finger of
\* a pan is at t.
TouchMove(dist, t) ==
    /\ Configured
    /\ touches > 0
    /\ IF touches = 2 /\ pinchStartDistance # 0
       THEN /\ PinchScale(dist) \in Scales
            /\ currentScale' = PinchScale(dist)
            /\ zoom' = PinchScale(dist)
            /\ UNCHANGED <<tx, ty>>
       ELSE IF isPanning /\ touches = 1
       THEN /\ tx' = Clamp(-MaxShift(SlideWidth), panOffset.x + (t.x - panStart.x),
                           MaxShift(SlideWidth))
            /\ ty' = Clamp(-MaxShift(SlideHeight), panOffset.y + (t.y - panStart.y),
                           MaxShift(SlideHeight))
            /\ UNCHANGED <<zoom, currentScale>>
       ELSE UNCHANGED <<zoom, tx, ty, currentScale>>
    /\ last' = "touchmove"
    /\ UNCHANGED <<swVars, mapVars, galleryVars, searchVars, allowTouchMove, touches,
                   pinchStartDistance, pinchStartScale, isPanning, panStart, panOffset,
                   lastTapTime>>

\* touchend with n fingers still down.
TouchEnd(n) ==
    /\ Configured
    /\ n < touches
    /\ touches' = n
    /\ IF n = 0
       THEN /\ allowTouchMove' = (currentScale <= RestoreScale)
            /\ currentScale' = IF currentScale <= RestoreScale THEN MinScale ELSE currentScale
            /\ zoom' = IF currentScale' = MinScale THEN MinScale ELSE zoom
            /\ pinchStartDistance' = 0
            /\ isPanning' = FALSE
       ELSE UNCHANGED <<allowTouchMove, currentScale, zoom, pinchStartDistance, isPanning>>
    /\ last' = "touchend"
    /\ UNCHANGED <<swVars, mapVars, galleryVars, searchVars, tx, ty, pinchStartScale, panStart,
                   panOffset, lastTapTime>>

\* Swiper's 'tap', for which two handlers are registered: the flip of the
\* active slide when the tap is on it, then the double tap, which toggles the
\* zoom when the tap before was less than 280 ms ago (quick).  The first tap
\* finds lastTapTime = 0 and is never quick.
Tap(onFlip, quick) ==
    /\ Configured
    /\ quick => lastTapTime # 0
    /\ flipped' = IF onFlip THEN ~flipped ELSE flipped
    /\ IF quick
       THEN LET next == IF zoom > MinScale THEN MinScale ELSE DoubleTapScale
            IN  /\ zoom' = next
                /\ currentScale' = next
                /\ allowTouchMove' = (next = MinScale)
       ELSE UNCHANGED <<zoom, currentScale, allowTouchMove>>
    /\ lastTapTime' = 1
    /\ last' = "tap"
    /\ UNCHANGED <<swVars, mapVars, searchVars, activeIndex, platzText, jumpValue, jumpBorder,
                   borderTimers, tx, ty, touches, pinchStartDistance, pinchStartScale,
                   isPanning, panStart, panOffset>>

\* --------------------------------------- the service worker's handlers
\* Responses: out of the cache (key is the entry), from the network,
\* Response.error() or a rejected promise, and the browser's own fetch when
\* the handler returns without respondWith.
FromCache(key) == [handled |-> TRUE, from |-> "cache", key |-> key, status |-> cache[key]]
FromNetwork(status) == [handled |-> TRUE, from |-> "network", key |-> "", status |-> status]
NetworkError == [handled |-> TRUE, from |-> "error", key |-> "", status |-> ""]
Unhandled(status) ==
    [handled |-> FALSE, from |-> IF online THEN "network" ELSE "error", key |-> "",
     status |-> IF online THEN status ELSE ""]

\* async function cacheFirst(req); status is the server's answer when asked.
\* Offline, fetch rejects and so does cacheFirst.
cacheFirst(req, status) ==
    IF cache[req.url] # "absent" THEN [resp |-> FromCache(req.url), cache |-> cache]
    ELSE IF online
         THEN [resp |-> FromNetwork(status), cache |-> [cache EXCEPT ![req.url] = status]]
         ELSE [resp |-> NetworkError, cache |-> cache]

\* Mutant of networkFirst: no fallback to index.html for a navigation.
networkFirstNoIndex(req, status) ==
    IF online
    THEN [resp |-> FromNetwork(status), cache |-> [cache EXCEPT ![req.url] = status]]
    ELSE IF cache[req.url] # "absent" THEN [resp |-> FromCache(req.url), cache |-> cache]
    ELSE [resp |-> NetworkError, cache |-> cache]

\* async function networkFirst(req); respondWith(undefined), when index.html
\* is not cached either, is a network error.
networkFirst(req, status) ==
    IF online
    THEN [resp |-> FromNetwork(status), cache |-> [cache EXCEPT ![req.url] = status]]
    ELSE IF cache[req.url] # "absent" THEN [resp |-> FromCache(req.url), cache |-> cache]
    ELSE IF req.mode = "navigate"
         THEN IF cache["./index.html"] # "absent"
              THEN [resp |-> FromCache("./index.html"), cache |-> cache]
              ELSE [resp |-> NetworkError, cache |-> cache]
    ELSE [resp |-> NetworkError, cache |-> cache]

\* 'install': caches.open(CACHE).then(cache => cache.addAll(CORE)), which
\* stores all of CORE or, when a request fails or is answered with an error
\* status, nothing; the worker is installed when the promise resolves.
SwInstall(served) ==
    /\ swState = "parsed"
    /\ cacheKeys' = cacheKeys \cup {CACHE}
    /\ IF online /\ served
       THEN /\ cache' = [u \in Urls |-> IF u \in CORE THEN "ok" ELSE cache[u]]
            /\ swState' = "installed"
       ELSE /\ swState' = "redundant"
            /\ UNCHANGED cache
    /\ last' = "install"
    /\ UNCHANGED <<pageVars, online, request, response>>

\* 'activate': every cache but CACHE is deleted; clients.claim().
SwActivate ==
    /\ swState = "installed"
    /\ cacheKeys' = {k \in cacheKeys : k = CACHE}
    /\ swState' = "activated"
    /\ last' = "activate"
    /\ UNCHANGED <<pageVars, cache, online, request, response>>

\* 'fetch' for a GET request; status is the server's answer when asked.
SwFetch(req, status) ==
    /\ swState = "activated"
    /\ request' = req
    /\ LET allowed == {"self", Unpkg}
           r == IF UrlProtocol(req.url) \notin {"http:", "https:"}
                THEN [resp |-> Unhandled(status), cache |-> cache]
                ELSE IF UrlOrigin(req.url) \notin allowed
                THEN [resp |-> Unhandled(status), cache |-> cache]
                ELSE IF UrlOrigin(req.url) = "self" /\ IsImagePath(req.url)
                THEN cacheFirst(req, status)
                ELSE networkFirst(req, status)
       IN  /\ response' = r.resp
           /\ cache' = r.cache
    /\ last' = "respond"
    /\ UNCHANGED <<pageVars, swState, cacheKeys, online>>

\* The network goes down or comes back.
NetworkChange ==
    /\ online' = ~online
    /\ last' = "network"
    /\ UNCHANGED <<pageVars, swState, cacheKeys, cache, request, response>>

\* ------------------------------------------------------------ the search
\* fetch('songs.json') resolves: .then(r => r.json()).then(d => { SONGS = ... })
FetchDone ==
    /\ fetchState = "pending"
    /\ SONGS' = LoadSongs(songsJson)
    /\ fetchState' = "loaded"
    /\ last' = "fetch"
    /\ UNCHANGED <<swVars, mapVars, galleryVars, zoomVars, songsJson, songValue, songPlatz, scan>>

\* Mutant of the failed load: the catch handler fills the catalog.
FetchFailLoads ==
    /\ fetchState = "pending"
    /\ SONGS' = LoadSongs(songsJson)
    /\ fetchState' = "failed"
    /\ last' = "fetch"
    /\ UNCHANGED <<swVars, mapVars, galleryVars, zoomVars, songsJson, songValue, songPlatz, scan>>

\* fetch('songs.json') fails: .catch(() => { SONGS = []; })
FetchFail ==
    /\ fetchState = "pending"
    /\ SONGS' = <<>>
    /\ fetchState' = "failed"
    /\ last' = "fetch"
    /\ UNCHANGED <<swVars, mapVars, galleryVars, zoomVars, songsJson, songValue, songPlatz, scan>>

\* The user edits the song input.
TypeSong(q) ==
    /\ Configured
    /\ songValue # q
    /\ songValue' = q
    /\ last' = "type"
    /\ UNCHANGED <<swVars, mapVars, galleryVars, zoomVars, SONGS, songsJson, fetchState, songPlatz, scan>>

\* A click on "Suchen", or Enter in the song input: showSongPlatz().
FindSong ==
    /\ Configured
    /\ songPlatz' = showSongPlatz(songValue).text
    /\ scan' = showSongPlatz(songValue).scan
    /\ last' = "find"
    /\ UNCHANGED <<swVars, mapVars, galleryVars, zoomVars, SONGS, songsJson, fetchState, songValue>>

\* ------------------------------------------------------- specifications
\* A raw entry of songs.json.
RawEntry(n, title, albumIndex, disc) ==
    [n |-> n, title |-> title, albumIndex |-> albumIndex, disc |-> disc]
JsonOf(items) == [array |-> TRUE, items |-> items]
NotAnArray == [array |-> FALSE, items |-> <<>>]

\* The words of ws joined by single spaces.
RECURSIVE Spaced(_)
Spaced(ws) ==
    IF Len(ws) <= 1 THEN ws ELSE <<Head(ws), " ">> \o Spaced(Tail(ws))
\* A title of twenty one-letter words, "a b c ... t".
Title20 == Spaced(SubSeq(LowerLetters, 1, 20))

\* The album lists of the jump specification: one- and two-disc albums and
\* albums whose discs field is no number.
JumpLists ==
    {Pad(k) \o tl :
        k \in {0, PadAlbums},
        tl \in SeqsUpTo({Album(Num(1)), Album(Num(2)), Album(Str(<<"x">>))}, MaxTail)} \ {<<>>}
InitJump == InitOn(JumpLists, {EmptyJson}, {<<>>})
NextJump ==
    \/ \E v \in JumpInputs : TypeJump(v)
    \/ GoClick
    \/ BorderTimer
    \/ KeyEnd
    \/ Flip
SpecJump == InitJump /\ [][NextJump]_vars

\* The search specification: catalogs of up to MaxCatalog entries, titles
\* under n or under title or missing, and queries that are empty, white
\* space, exact, partial and unrelated.
SearchEntries ==
    {RawEntry(Str(<<"a">>), Undefined, Num(0), Null),
     RawEntry(Undefined, Str(<<"a", " ", "b">>), Num(1), Num(1)),
     RawEntry(Str(<<"B">>), Str(<<"a">>), Num(2), Num(2)),
     RawEntry(Str(Title20), Undefined, Num(0), Num(1)),
     RawEntry(Undefined, Undefined, Num(0), Null)}
SearchJsons == {JsonOf(items) : items \in SeqsUpTo(SearchEntries, MaxCatalog)} \cup {NotAnArray}
SearchQueries ==
    {<<>>, <<" ">>, <<" ", "\t", " ">>, <<"a">>, <<"b", " ", "a">>, <<"x">>,
     <<"c", " ", "b", " ", "a">>, <<"d", " ", "c", " ", "b", " ", "a">>}
InitSearch == InitOn({Scenario1}, SearchJsons, SearchQueries)
NextSearch == FetchDone \/ FetchFail \/ FindSong
SpecSearch == InitSearch /\ [][NextSearch]_vars

\* The scoring specification: one catalog entry, every query and title of up
\* to MaxLen characters over two letters and the space, and a capital, an
\* accented letter and punctuation.
ScoreStrings ==
    SeqsUpTo({"a", "b", " "}, MaxLen)
        \cup {<<"A">>, <<AUml>>, <<"a", "-", "B">>, <<"b", "^", "a">>, <<SharpS>>}
ScoreJsons == {JsonOf(<<RawEntry(Str(c), Undefined, Num(0), Null)>>) : c \in ScoreStrings}
InitScore == InitOn({Scenario1}, ScoreJsons, ScoreStrings)
NextScore == FetchDone \/ FindSong
SpecScore == InitScore /\ [][NextScore]_vars

\* The Platz specification: one catalog entry titled "a" whose albumIndex and
\* disc vary, the query "a", and the album lists of the jump specification.
IndexValues ==
    {Undefined, Num(-1), Num(0), Num(1), Num(2), Num(PadAlbums), Num(PadAlbums + 1),
     Num(PadAlbums + 2), Str(<<"x">>), Str(<<"1">>)}
DiscValues == {Undefined, Null, Num(1), Num(2), Num(3), Str(<<"2">>)}
PlatzJsons ==
    {JsonOf(<<RawEntry(Str(<<"a">>), Undefined, i, d)>>) : i \in IndexValues, d \in DiscValues}
InitPlatz == InitOn(JumpLists, PlatzJsons, {<<"a">>})
NextPlatz == FetchDone \/ FindSong
SpecPlatz == InitPlatz /\ [][NextPlatz]_vars

\* The page as a whole, on a small album list and catalog.
Init ==
    InitOn({<<Album(Num(1)), Album(Num(2))>>},
           {JsonOf(<<RawEntry(Str(<<"a">>), Undefined, Num(1), Num(2))>>)},
           {<<>>})
Next ==
    \/ SlideNext
    \/ SlidePrev
    \/ KeyHome
    \/ KeyEnd
    \/ Flip
    \/ \E v \in {<<"3">>} : TypeJump(v)
    \/ GoClick
    \/ BorderTimer
    \/ FetchDone
    \/ FetchFail
    \/ \E q \in {<<"a">>} : TypeSong(q)
    \/ FindSong
    \/ \E n \in {1, 2} : TouchStart(n, 100, [x |-> 0, y |-> 0])
    \/ TouchMove(200, [x |-> 0, y |-> 0])
    \/ \E n \in {0, 1} : TouchEnd(n)
    \/ \E quick \in BOOLEAN : Tap(TRUE, quick)
Spec == Init /\ [][Next]_vars

InitSlots == InitOn(AlbumLists, {EmptyJson}, {<<>>})
NextSlots == KeyHome \/ KeyEnd
SpecSlots == InitSlots /\ [][NextSlots]_vars

\* ------------------------------------------------------------ the claims
AlbumIndices == 0..(Len(albums) - 1)
\* The forward-map entries of album i, and its start slot.
SlotsOf(i) == {s \in 1..MAX_SLOTS : slotToAlbum[s] = i}
StartOf(i) == albumStartSlot[i + 1]
Assigned == {s \in 1..MAX_SLOTS : slotToAlbum[s] # -1}

\* C1: every album that received at least one forward-map entry is the album
\* the forward map gives for its own start slot.
C1_StartSlotMapsBack ==
    \A i \in AlbumIndices :
        SlotsOf(i) # {} =>
            /\ StartOf(i) \in 1..MAX_SLOTS
            /\ slotToAlbum[StartOf(i)] = i

\* Some album received slots and some album received none.
C1_Witness ==
    /\ \E i \in AlbumIndices : SlotsOf(i) # {} /\ i > 0
    /\ \E i \in AlbumIndices : SlotsOf(i) = {}

\* C2: the assigned slots are exactly 1..k for some k <= MAX_SLOTS, album
\* indices never decrease along the slots, each album's slots start at its
\* start slot, which is where the album before it ended, a two-disc album
\* owns start and start+1 when both fit, and only the slots that fit are
\* assigned; discs [1,2,1] gives starts [1,2,4] and slots 1..4 -> 0,1,1,2.
C2_ContiguousInOrder ==
    LET owned == [i \in AlbumIndices |-> SlotsOf(i)]
    IN  /\ \E k \in 0..MAX_SLOTS : Assigned = 1..k
        /\ slotToAlbum[0] = -1
        /\ \A s \in 1..(MAX_SLOTS - 1) :
              slotToAlbum[s + 1] # -1 =>
                  slotToAlbum[s] # -1 /\ slotToAlbum[s] <= slotToAlbum[s + 1]
        /\ \A s \in Assigned : slotToAlbum[s] \in AlbumIndices
        /\ \A i \in AlbumIndices :
            /\ StartOf(i) = (IF i = 0 THEN 1 ELSE StartOf(i - 1) + Cardinality(owned[i - 1]))
            /\ owned[i] = StartOf(i)..(StartOf(i) + Cardinality(owned[i]) - 1)
            /\ ClampDiscs(albums[i + 1]) = Num(2) =>
                  /\ StartOf(i) + 1 <= MAX_SLOTS => owned[i] = {StartOf(i), StartOf(i) + 1}
                  /\ StartOf(i) = MAX_SLOTS => owned[i] = {MAX_SLOTS}
                  /\ StartOf(i) > MAX_SLOTS => owned[i] = {}
        /\ albums = Scenario1 =>
              /\ albumStartSlot = <<1, 2, 4>>
              /\ \A s \in 0..MAX_SLOTS :
                    slotToAlbum[s] =
                        (CASE s = 1 -> 0 [] s \in {2, 3} -> 1 [] s = 4 -> 2 [] OTHER -> -1)

\* The address space is exhausted in the middle of a two-disc album.
C2_Witness ==
    \E i \in AlbumIndices :
        /\ ClampDiscs(albums[i + 1]) = Num(2)
        /\ StartOf(i) = MAX_SLOTS
        /\ SlotsOf(i) = {MAX_SLOTS}

\* The number of discs the claim gives an album whose discs field is v: 1 when
\* the field is missing or no number, the number clamped into [1,2] otherwise.
ClaimedDiscs(v) ==
    LET k == IF v.t = "number" THEN v ELSE IF v.t = "string" THEN StringToNumber(v.s) ELSE NaN
    IN  IF IsNaN(k) THEN 1 ELSE IF k.n < 1 THEN 1 ELSE IF k.n > 2 THEN 2 ELSE k.n

\* C3: an album whose discs field is missing, non-numeric or invalid consumes
\* exactly one slot and any other album its discs clamped into [1,2], while
\* space remains.
C3_InvalidDiscsIsOne ==
    \A i \in AlbumIndices :
        StartOf(i) + ClaimedDiscs(albums[i + 1].discs) - 1 <= MAX_SLOTS =>
            Cardinality(SlotsOf(i)) = ClaimedDiscs(albums[i + 1].discs)

\* C7: the label of an album that occupies one slot is its start slot, and
\* the label of an album that occupies two is start, en-dash, start+1, with
\* start+1 <= MAX_SLOTS; the Platz text shows the label of the active slide.
C7_RangeLabel ==
    LET occupied == [i \in AlbumIndices |-> Cardinality(SlotsOf(i))]
    IN  /\ \A i \in AlbumIndices :
            /\ occupied[i] = 1 => slideAlt[i + 1] = NatDigits(StartOf(i))
            /\ occupied[i] = 2 =>
                  /\ StartOf(i) + 1 <= MAX_SLOTS
                  /\ slideAlt[i + 1] =
                        NatDigits(StartOf(i)) \o <<EnDash>> \o NatDigits(StartOf(i) + 1)
            /\ ClampDiscs(albums[i + 1]) = Num(2) /\ StartOf(i) = MAX_SLOTS =>
                  slideAlt[i + 1] = <<"1", "0", "0">>
        /\ Configured /\ occupied[activeIndex] \in {1, 2} =>
              platzText = <<"Platz ">> \o slideAlt[activeIndex + 1]
        /\ albums = Scenario1 => slideAlt[2] = <<"2", EnDash, "3">>

\* The gallery shows a two-disc album that starts at slot MAX_SLOTS.
C7_Witness ==
    /\ Configured
    /\ last = "slide"
    /\ ClampDiscs(albums[activeIndex + 1]) = Num(2)
    /\ StartOf(activeIndex) = MAX_SLOTS
    /\ platzText = <<"Platz ", "1", "0", "0">>

\* C6: a click on Go moves the gallery to slotToAlbum[n] exactly when the
\* text parses to an integer n in 1..MAX_SLOTS whose slot is assigned; any
\* other text leaves the active slide and the Platz text as they were and
\* marks the input red.
C6_JumpOnlyToAssignedSlot ==
    [][last' = "go" =>
        LET n == ParseInt(jumpValue)
            assigned == IsNum(n) /\ n.n \in 1..MAX_SLOTS /\ slotToAlbum[n.n] # -1
        IN  IF assigned
            THEN /\ activeIndex' = slotToAlbum[n.n]
                 /\ platzText' = <<"Platz ">> \o slideAlt[slotToAlbum[n.n] + 1]
                 /\ flipped' = FALSE
            ELSE /\ ResolveSlot(n) = -1
                 /\ activeIndex' = activeIndex
                 /\ platzText' = platzText
                 /\ flipped' = flipped
                 /\ jumpBorder' = "red"]_vars

\* A jump to slot 100 has moved the gallery to the album that owns it.
C6_Witness ==
    /\ last = "go"
    /\ jumpValue = <<>>
    /\ slotToAlbum[MAX_SLOTS] = activeIndex
    /\ activeIndex > 0

\* A rejected jump: the text is still in the input, which is red, and the
\* gallery is where it was.
C6_WitnessRejected ==
    /\ last = "go"
    /\ jumpValue = <<"1", "0", "1">>
    /\ jumpBorder = "red"
    /\ activeIndex > 0

\* The entry the last search matched, its album index when that is a valid
\* index into the album list, and the texts of an exact and an approximate
\* result.
Matched == SONGS[scan.hit]
ValidIndex(e) ==
    e.albumIndex.t = "number" /\ e.albumIndex.n >= 0 /\ e.albumIndex.n < Len(albums)
ExactText(slot) == <<"Platz ">> \o NatDigits(slot)
ApproxText(slot) == <<ApproxPlatz>> \o NatDigits(slot)
Min(a, b) == IF a <= b THEN a ELSE b

\* The five cases of a resolution, for an album taken to hold discsCount
\* discs.
PlatzCases(start, discsCount, d, res) ==
    /\ d = Num(1) => songPlatz = ExactText(start) /\ res = [slot |-> Num(start), approx |-> FALSE]
    /\ d = Num(2) /\ discsCount = 2 =>
          /\ songPlatz = ExactText(Min(start + 1, MAX_SLOTS))
          /\ res = [slot |-> Num(Min(start + 1, MAX_SLOTS)), approx |-> FALSE]
    /\ d = Num(2) /\ discsCount = 1 =>
          songPlatz = ApproxText(start) /\ res = [slot |-> Num(start), approx |-> TRUE]
    /\ d = Null /\ discsCount = 1 =>
          songPlatz = ExactText(start) /\ res = [slot |-> Num(start), approx |-> FALSE]
    /\ d = Null /\ discsCount = 2 =>
          songPlatz = ApproxText(start) /\ res = [slot |-> Num(start), approx |-> TRUE]

\* C4: for a matched entry with a valid albumIndex the result is (start,
\* exact) for disc 1, (min(start+1, MAX_SLOTS), exact) for disc 2 of a
\* two-disc album, (start, approximate) for disc 2 of a one-disc album,
\* (start, exact) for an unknown disc of a one-disc album and (start,
\* approximate) for an unknown disc of a two-disc album, where an album holds
\* its discs field clamped into [1,2] and one disc when the field is missing
\* or invalid.
C4_PlatzForSong ==
    scan.hit # 0 /\ ValidIndex(Matched) =>
        LET i == Matched.albumIndex.n
        IN  PlatzCases(StartOf(i), ClaimedDiscs(albums[i + 1].discs), Matched.disc,
                       computePlatzForSong(Matched))

\* The five cases hold for every album whose discs field the code's clamp
\* turns into 1 or 2, that is every album but one with a non-numeric discs
\* field.
C4_PlatzForSongNumericDiscs ==
    scan.hit # 0 /\ ValidIndex(Matched) =>
        LET i == Matched.albumIndex.n
            discsCount == ClampDiscs(albums[i + 1])
        IN  IsNum(discsCount) =>
                PlatzCases(StartOf(i), discsCount.n, Matched.disc, computePlatzForSong(Matched))

\* Disc 2 of a two-disc album that starts at slot MAX_SLOTS: start+1 is
\* clamped to MAX_SLOTS.
C4_Witness ==
    /\ scan.hit # 0
    /\ ValidIndex(Matched)
    /\ Matched.disc = Num(2)
    /\ ClampDiscs(albums[Matched.albumIndex.n + 1]) = Num(2)
    /\ StartOf(Matched.albumIndex.n) = MAX_SLOTS
    /\ songPlatz = <<"Platz ", "1", "0", "0">>

\* C5: a matched entry whose albumIndex is no valid index into the album list
\* gives no slot, and the search shows "Unbekannt".
C5_InvalidIndexUnknown ==
    scan.hit # 0 /\ ~ValidIndex(Matched) =>
        /\ songPlatz = <<"Unbekannt">>
        /\ computePlatzForSong(Matched).slot = Null

\* The matched entry points past the end of the album list.
C5_Witness ==
    /\ scan.hit # 0
    /\ last = "find"
    /\ Matched.albumIndex.t = "number"
    /\ Matched.albumIndex.n >= Len(albums)
    /\ songPlatz = <<"Unbekannt">>

\* The matched entry's albumIndex is not a number.
C5_WitnessNaN ==
    /\ scan.hit # 0
    /\ last = "find"
    /\ Matched.albumIndex = NaN
    /\ songPlatz = <<"Unbekannt">>

\* The positions whose score is the greatest of the scan.
MaxPositions(scores) ==
    {k \in 1..Len(scores) : \A j \in 1..Len(scores) : ~FracGreater(scores[j], scores[k])}

\* C8: findBestSong returns the earliest entry whose score is the maximum
\* over the catalog when that maximum is above 0.15, and null otherwise.
C8_FirstMaximumAboveCutOff ==
    scan.ran =>
        LET top == MaxPositions(scan.scores)
        IN  IF top = {} \/ \A k \in top : ~FracGreater(scan.scores[k], Frac(15, 100))
            THEN scan.hit = 0 /\ (last = "find" => songPlatz = <<"Kein Treffer">>)
            ELSE /\ scan.hit \in top
                 /\ \A k \in top : scan.hit <= k

\* Two entries tie at the maximum, above the cut-off, and the first is returned.
C8_Witness ==
    /\ scan.ran
    /\ \E j \in MaxPositions(scan.scores) : \E k \in MaxPositions(scan.scores) :
          j < k /\ scan.hit = j

\* The maximum is exactly 0.15, and nothing is returned.
C8_WitnessCutOff ==
    /\ scan.ran
    /\ \E k \in MaxPositions(scan.scores) : FracEq(scan.scores[k], Frac(15, 100))
    /\ scan.hit = 0
    /\ songPlatz = <<"Kein Treffer">>

\* C9: a score is 3 exactly when the normalised query and title are equal and
\* not empty, 0 when either is empty, and below 3 otherwise.
C9_ExactMatchIsThree ==
    scan.ran /\ Len(scan.scores) = Len(SONGS) =>
        \A k \in 1..Len(SONGS) :
            LET q == norm(songValue)
                c == norm(SONGS[k].n)
                sc == scan.scores[k]
            IN  /\ FracEq(sc, Frac(3, 1)) <=> (q = c /\ q # <<>>)
                /\ (q = <<>> \/ c = <<>>) => sc.n = 0
                /\ ~FracEq(sc, Frac(3, 1)) => FracGreater(Frac(3, 1), sc)
                /\ sc.n >= 0 /\ sc.d > 0

\* A query and a title that differ as typed and are equal once normalised.
C9_Witness ==
    /\ scan.ran
    /\ Len(SONGS) = 1
    /\ Len(scan.scores) = 1
    /\ songValue # SONGS[1].n
    /\ FracEq(scan.scores[1], Frac(3, 1))

\* The greatest partial score: substring, equal token sets and prefix.
C9_WitnessPartial ==
    /\ scan.ran
    /\ Len(scan.scores) = 1
    /\ FracEq(scan.scores[1], Frac(9, 4))

AllSpace(cs) == \A k \in 1..Len(cs) : IsSpace(cs[k])

\* C10 as claimed: an empty or white-space-only query gives the empty result
\* without a scan of the catalog.
C10_BlankQueryIsEmpty ==
    last = "find" /\ AllSpace(songValue) => songPlatz = <<>> /\ ~scan.ran

\* C10 as amended: the empty query gives the empty result without a scan of
\* the catalog; a query of white space only is scanned and gives "Kein
\* Treffer".
C10_EmptyQueryIsEmpty ==
    last = "find" =>
        /\ songValue = <<>> => songPlatz = <<>> /\ ~scan.ran
        /\ songValue # <<>> /\ AllSpace(songValue) =>
              /\ scan.ran
              /\ scan.hit = 0
              /\ songPlatz = <<"Kein Treffer">>

\* The empty query searched against a loaded catalog.
C10_Witness ==
    /\ last = "find"
    /\ songValue = <<>>
    /\ fetchState = "loaded"
    /\ SONGS # <<>>
    /\ songPlatz = <<>>

\* C11: a search for a non-empty query made while the catalog load is pending,
\* or after it failed, runs over the empty catalog: it shows "Kein Treffer",
\* matches no entry and shows no slot.
C11_SearchBeforeLoadIsNoMatch ==
    last = "find" /\ fetchState \in {"pending", "failed"} /\ songValue # <<>> =>
        /\ SONGS = <<>>
        /\ scan.ran
        /\ scan.scores = <<>>
        /\ scan.hit = 0
        /\ songPlatz = <<"Kein Treffer">>

\* The query "a" was searched while songs.json, which holds an entry titled
\* "a", was still loading.
C11_Witness ==
    /\ last = "find"
    /\ fetchState = "pending"
    /\ songValue = <<"a">>
    /\ \E k \in 1..Len(LoadSongs(songsJson)) : LoadSongs(songsJson)[k].n = <<"a">>
    /\ songPlatz = <<"Kein Treffer">>

\* The same search after the load failed.
C11_WitnessFailed ==
    /\ last = "find"
    /\ fetchState = "failed"
    /\ songValue = <<"a">>
    /\ \E k \in 1..Len(LoadSongs(songsJson)) : LoadSongs(songsJson)[k].n = <<"a">>
    /\ songPlatz = <<"Kein Treffer">>

\* The zoom specification: the gallery of two albums under touches, taps
\* and navigation by the buttons and the arrow keys.
InitZoom == InitOn({<<Album(Num(1)), Album(Num(2))>>}, {EmptyJson}, {<<>>})
NextZoom ==
    \/ \E n \in 1..MaxFingers, dist \in StartDistances, t \in TouchPoints : TouchStart(n, dist, t)
    \/ \E dist \in MoveDistances, t \in TouchPoints : TouchMove(dist, t)
    \/ \E n \in 0..(MaxFingers - 1) : TouchEnd(n)
    \/ \E onFlip \in BOOLEAN, quick \in BOOLEAN : Tap(onFlip, quick)
    \/ SlideNext
    \/ SlidePrev
SpecZoom == InitZoom /\ [][NextZoom]_vars

\* C17: whenever no finger is down and the active slide is unzoomed, swiping
\* is enabled and currentScale is 1; swiping is disabled only while the active
\* slide is zoomed in or a finger is down.
C17_SwipeEnabledWhenUnzoomed ==
    /\ touches = 0 /\ zoom = MinScale => allowTouchMove /\ currentScale = MinScale
    /\ ~allowTouchMove => zoom > MinScale \/ touches > 0

\* After a double tap zoomed the slide in, the gallery moved to another slide:
\* its zoom is 1 and no finger is down, and swiping is still disabled.
C17_SwipeStuck ==
    /\ last = "slide"
    /\ touches = 0
    /\ zoom = MinScale
    /\ currentScale = DoubleTapScale
    /\ ~allowTouchMove

\* C12: once built, slotToAlbum and albumStartSlot never change: no slide
\* change, flip, slot jump, song search, touch, tap or key writes to either.
C12_MapsNeverChange ==
    [][slotToAlbum' = slotToAlbum /\ albumStartSlot' = albumStartSlot]_vars

\* The maps are as built after the catalog was loaded and searched, a jump was
\* rejected, the gallery moved to the second album and a double tap zoomed in.
C12_Witness ==
    /\ fetchState = "loaded"
    /\ songPlatz = <<"Platz ", "3">>
    /\ jumpBorder = "red"
    /\ activeIndex = 1
    /\ flipped
    /\ currentScale = DoubleTapScale
    /\ touches = 1
    /\ slotToAlbum = BuildMaps(albums).slotToAlbum
    /\ albumStartSlot = BuildMaps(albums).albumStartSlot

\* The normalisation specification: every query of up to MaxNormLen characters
\* over a letter, a capital, the space, the tab, punctuation, a spacing
\* diacritic and an accented letter, searched in a catalog of one title.
NormChars == {"a", "A", " ", "\t", "-", "^", AUml}
NormStrings == SeqsUpTo(NormChars, MaxNormLen)
NormJsons == {JsonOf(<<RawEntry(Str(<<"a", " ", "a">>), Undefined, Num(0), Num(1))>>)}
InitNorm == InitOn({Scenario1}, NormJsons, NormStrings)
NextNorm == FetchDone \/ FindSong
SpecNorm == InitNorm /\ [][NextNorm]_vars

\* C13: norm is idempotent, norm(norm(s)) = norm(s), for the query and for
\* every title; a search with the normalised query scores as the search with
\* the query does.
C13_NormIdempotent ==
    /\ norm(norm(songValue)) = norm(songValue)
    /\ \A k \in 1..Len(SONGS) : norm(norm(SONGS[k].n)) = norm(SONGS[k].n)
    /\ last = "find" /\ scan.ran =>
          scan.scores = [k \in 1..Len(SONGS) |-> fuzzyScore(norm(songValue), SONGS[k].n)]

\* A query that norm changes in every step (case, accent, punctuation, white
\* space) was searched and matched the title "a a" exactly.
C13_Witness ==
    /\ last = "find"
    /\ songValue = <<"A", "\t", "-", AUml>>
    /\ norm(songValue) = <<"a", " ", "a">>
    /\ scan.scores = <<Frac(3, 1)>>

\* The service worker specification: install, activate, the network going
\* down and coming back, and fetch events for every URL as a navigation and
\* as a subresource.  The server answers the page, a script and the page that
\* does not exist with 200 or with 404, everything else with 200.
Requests == {[url |-> u, mode |-> m] : u \in Urls, m \in {"navigate", "no-cors"}}
ServerStatuses(u) ==
    IF u \in {"./index.html", "./app.js", "./other.html"} THEN {"ok", "http404"} ELSE {"ok"}
InitWorker == InitOn({Scenario1}, {EmptyJson}, {<<>>})
NextWorker ==
    \/ \E served \in BOOLEAN : SwInstall(served)
    \/ SwActivate
    \/ \E req \in Requests : \E status \in ServerStatuses(req.url) : SwFetch(req, status)
    \/ NetworkChange
SpecWorker == InitWorker /\ [][NextWorker]_vars

\* C14: once the worker is installed and active, a navigation within the
\* origin and a request for an asset of CORE made while the network is down
\* is answered out of the cache, with the entry of the request or, for a
\* navigation, with the entry of index.html, and never with a network error.
C14_OfflineAnsweredFromCache ==
    /\ last = "respond"
    /\ ~online
    /\ \/ request.mode = "navigate" /\ UrlOrigin(request.url) = "self"
       \/ request.url \in CORE
    => /\ response.handled
       /\ response.from = "cache"
       /\ response.status # "absent"
       /\ \/ response.key = request.url
          \/ request.mode = "navigate" /\ response.key = "./index.html"

\* C14 as amended: the same, for a navigation whose path is no image path
\* and for every asset of CORE.  A navigation to an image of the origin that
\* is not cached is handled cache-first and fails when the network is down.
C14_OfflineAnsweredUnlessImage ==
    /\ last = "respond"
    /\ ~online
    /\ \/ /\ request.mode = "navigate"
          /\ UrlOrigin(request.url) = "self"
          /\ ~IsImagePath(request.url)
       \/ request.url \in CORE
    => /\ response.handled
       /\ response.from = "cache"
       /\ response.status # "absent"
       /\ \/ response.key = request.url
          \/ request.mode = "navigate" /\ response.key = "./index.html"

\* Offline, a navigation to a page that is not cached was answered with the
\* cached index.html.
C14_Witness ==
    /\ last = "respond"
    /\ ~online
    /\ swState = "activated"
    /\ request = [url |-> "./other.html", mode |-> "navigate"]
    /\ response = [handled |-> TRUE, from |-> "cache", key |-> "./index.html", status |-> "ok"]

\* Offline, a script of CORE was answered with its cached copy.
C14_WitnessAsset ==
    /\ last = "respond"
    /\ ~online
    /\ request = [url |-> SwiperJs, mode |-> "no-cors"]
    /\ response.from = "cache"
    /\ response.key = SwiperJs

\* C15: whenever the resolution of the matched entry returns a slot that is
\* not approximate, the forward map gives that slot to the entry's album.
C15_ExactSlotBelongsToAlbum ==
    scan.hit # 0 =>
        LET res == computePlatzForSong(Matched)
        IN  res.slot # Null /\ ~res.approx =>
                /\ IsNum(res.slot)
                /\ res.slot.n \in DOMAIN slotToAlbum
                /\ slotToAlbum[res.slot.n] = Matched.albumIndex.n

\* Disc 1 of an album that found no slot left resolves to slot MAX_SLOTS + 1,
\* exactly.
C15_ExactBeyondBound ==
    /\ last = "find"
    /\ scan.hit # 0
    /\ ValidIndex(Matched)
    /\ SlotsOf(Matched.albumIndex.n) = {}
    /\ songPlatz = <<"Platz ", "1", "0", "1">>

\* C16: the slot of a song resolution, and the start and the end of the range
\* label of every album, lie in 1..MAX_SLOTS, and start <= end.
C16_DisplayedSlotsInRange ==
    /\ \A i \in AlbumIndices :
          /\ IsNum(LabelStart(i)) /\ LabelStart(i).n \in 1..MAX_SLOTS
          /\ IsNum(LabelEnd(i)) /\ LabelEnd(i).n \in 1..MAX_SLOTS
          /\ LabelStart(i).n <= LabelEnd(i).n
    /\ scan.hit # 0 =>
          LET res == computePlatzForSong(Matched)
          IN  res.slot # Null => IsNum(res.slot) /\ res.slot.n \in 1..MAX_SLOTS

\* The label of an album that found no slot left runs backwards, from
\* MAX_SLOTS + 1 to MAX_SLOTS.
C16_LabelBackwards ==
    \E i \in AlbumIndices :
        /\ SlotsOf(i) = {}
        /\ slideAlt[i + 1] = <<"1", "0", "1", EnDash, "1", "0", "0">>

=============================================================================
